---- MODULE Spec2Model ----
(***************************************************************************)
(* Model of abiquo_inventory.py: the Ansible dynamic-inventory script for  *)
(* Abiquo.  One process run (AbiquoInventory.__init__) decides between the *)
(* API and the cache file, builds or loads the inventory document, writes  *)
(* it to the cache file and emits it on standard output.                   *)
(*                                                                         *)
(* Strings whose characters matter (link titles, variable names, group     *)
(* names) are sequences of one-character strings, so that sanitisation and *)
(* "%s" formatting are computed character by character.                    *)
(***************************************************************************)
EXTENDS Integers, Sequences, FiniteSets, TLC

\* ------------------------------------------------------------- bounds
\* VMs returned by one call of get_vms
MaxVMs == 2
\* last second of the clock
MaxTime == 3
\* largest configured cache_max_age
MaxAge == 1
\* pieces a title is concatenated from in the group-name specification
MaxTok == 2

\* ------------------------------------------------------------ strings
\* title.replace('[','').replace(']','').replace(' ','_')
Sanitize(s) ==
    LET kept == SelectSeq(s, LAMBDA c : c \notin {"[", "]"})
    IN  [i \in 1..Len(kept) |-> IF kept[i] = " " THEN "_" ELSE kept[i]]

\* "template_%s" % vm_template
template_group(t) == <<"t","e","m","p","l","a","t","e","_">> \o t

\* "vapp_%s" % vm_vapp
vapp_group(a) == <<"v","a","p","p","_">> \o a

\* "vdc_%s" % vm_vdc
vdc_group(d) == <<"v","d","c","_">> \o d

\* 'vdc_%s_vapp_%s' % (vm_vdc, vm_vapp)
vdcvapp_group(d, a) == <<"v","d","c","_">> \o d \o <<"_","v","a","p","p","_">> \o a

\* 'hwprof_%s' % hw_profile
hwprof_group(p) == <<"h","w","p","r","o","f","_">> \o p

\* a plausible slip: the vApp prefix pasted into the variable group
vargroup_pasted(var_sane, val_sane) ==
    <<"v","a","p","p","_">> \o var_sane \o <<"_">> \o val_sane

\* "var_%s_%s" % (var_sane, val_sane)
vargroup(var_sane, val_sane) == <<"v","a","r","_">> \o var_sane \o <<"_">> \o val_sane

\* the key of the reserved entry of the document
META == <<"_","m","e","t","a">>

\* {"_meta": {"hostvars": {}}}
empty_inventory == META :> [hostvars |-> <<>>]

\* the dict {} that get_cache starts from
EmptyDict == <<>>

\* ---------------------------------------------------------- API data
PublicIpType == "application/vnd.abiquo.publicip+json"
PrivateIpType == "application/vnd.abiquo.privateip+json"
LinkType == "application/vnd.abiquo.link+json"

Link(rel, type, title) == [rel |-> rel, type |-> type, title |-> title]

\* the links that carry an address
PubLink == Link("ip", PublicIpType, <<"1">>)
Nic0Link == Link("nic0", PrivateIpType, <<"2">>)

NicLinks(n) ==
    CASE n = "none" -> <<>>
      [] n = "pub"  -> <<PubLink>>
      [] n = "nic0" -> <<Nic0Link>>
      [] n = "both" -> <<Nic0Link, PubLink>>

VappA == Link("virtualappliance", LinkType, <<"a">>)
VappBC == Link("virtualappliance", LinkType, <<"[","b"," ","c","]">>)
VdcD == Link("virtualdatacenter", LinkType, <<"d">>)
TmplT == Link("virtualmachinetemplate", LinkType, <<"t">>)
HwH == Link("hardwareprofile", LinkType, <<"h">>)

\* the grouping links of a VM: none, a full set, a full set with a hardware
\* profile and a title to sanitise, one without vApp link, one with only it
GroupLinks(g) ==
    CASE g = 0 -> <<>>
      [] g = 1 -> <<VappA, VdcD, TmplT>>
      [] g = 2 -> <<VappBC, VdcD, TmplT, HwH>>
      [] g = 3 -> <<VdcD, TmplT>>
      [] g = 4 -> <<VappA>>

\* vm.json['variables'], as the (name, value) pairs in iteration order;
\* hasVars is 'variables' in vm.json
VM(n, g, st) ==
    [links |-> NicLinks(n) \o GroupLinks(g),
     state |-> st,
     hasVars |-> (g = 2),
     variables |-> IF g = 2 THEN << << <<"k"," ">>, <<"[","v","]">> >> >> ELSE <<>>]

\* the VMs get_vms may return
VMPool ==
    {VM(n, g, st) : n \in {"none", "pub", "nic0", "both"}, g \in 0..4,
                    st \in {"ON", "NOT_ALLOCATED"}}

\* the VMs of the runs that exercise the cache
SmallPool == {VM("pub", 1, "ON"), VM("none", 0, "ON")}

\* no VM fetched yet
NoVM == [links |-> <<>>, state |-> "", hasVars |-> FALSE, variables |-> <<>>]


\* ------------------------------------------------------ configuration
\* a missing option of abiquo.ini
NoOpt == -1

\* abiquo.ini as the runs that generate from the API read it
GenConfigs ==
    [public_ip_only : BOOLEAN, deployed_only : BOOLEAN, get_metadata : {TRUE},
     default_net_interface : {"nic0"}, cache_dir : {TRUE}, cache_max_age : {NoOpt}]

\* abiquo.ini as the runs that exercise the cache read it
CacheConfigs ==
    [public_ip_only : {TRUE}, deployed_only : {FALSE}, get_metadata : BOOLEAN,
     default_net_interface : {"nic0"}, cache_dir : BOOLEAN,
     cache_max_age : {NoOpt} \cup (0..MaxAge)]

\* ------------------------------------------- generate_inv_from_api
\* a local name that was never assigned: reading it raises NameError
Unbound == <<"<unbound>">>
\* Python's None
None == <<"<None>">>

\* the locals of generate_inv_from_api when it is entered
fresh_locals ==
    [vm_nic |-> Unbound, vm_vapp |-> Unbound, vm_vdc |-> Unbound,
     vm_template |-> Unbound]

MaxOf(S) == CHOOSE x \in S : \A y \in S : y <= x
MinOf(S) == CHOOSE x \in S : \A y \in S : x <= y

\* one name of the scan over vm.links: every link with the rel assigns the
\* name, so the last one stays; without such a link the name keeps `prev`
scan_title(links, rel, prev) ==
    LET at == {i \in 1..Len(links) : links[i].rel = rel}
    IN  IF at = {} THEN prev ELSE Sanitize(links[MaxOf(at)].title)

\* hw_profile = '' and the scan of vm.links
scan_links(loc, links) ==
    [vm_vapp |-> scan_title(links, "virtualappliance", loc.vm_vapp),
     vm_vdc |-> scan_title(links, "virtualdatacenter", loc.vm_vdc),
     vm_template |-> scan_title(links, "virtualmachinetemplate", loc.vm_template),
     hw_profile |-> scan_title(links, "hardwareprofile", <<>>)]

\* the link test of the identifier selection
qualifies(cfg, link) ==
    IF cfg.public_ip_only
    THEN link.type = PublicIpType /\ link.rel = "ip"
    ELSE link.rel = cfg.default_net_interface

\* the for/else of the identifier selection: the first qualifying link's
\* title; None when the loop ran and no link qualified; left as it was when
\* vm.links is empty and the loop body never ran
select_nic(cfg, links, prev) ==
    LET at == {i \in 1..Len(links) : qualifies(cfg, links[i])}
    IN  IF links = <<>> THEN prev
        ELSE IF at = {} THEN None
        ELSE links[MinOf(at)].title

\* a slip: the deployed-only test compares with the wrong state
deployed_excluded_wrong(cfg, v) == cfg.deployed_only /\ v.state = "OFF"

\* vm_state is False
deployed_excluded(cfg, v) == cfg.deployed_only /\ v.state = "NOT_ALLOCATED"

\* the host variables of a VM without nics and disks: the titles of its
\* first link per listed rel and its own attributes
vars_from_json(v) ==
    LET link_rels == {"category", "virtualmachinetemplate", "hypervisortype", "ip",
                      "location", "hardwareprofile", "state", "network_configuration",
                      "virtualappliance", "virtualdatacenter", "user", "enterprise"}
        has == {r \in link_rels : \E i \in 1..Len(v.links) : v.links[i].rel = r}
        first(r) == v.links[MinOf({i \in 1..Len(v.links) : v.links[i].rel = r})].title
    IN  [abq_links |-> [r \in has |-> first(r)],
         abq_state |-> v.state,
         abq_variables |-> v.variables]

\* a slip: the host variables are not recorded
set_hostvars_dropped(inventory, vm_nic, host_vars) == inventory

\* inventory['_meta']['hostvars'][vm_nic] = host_vars
set_hostvars(inventory, vm_nic, host_vars) ==
    [inventory EXCEPT ![META] =
        [hostvars |-> (vm_nic :> host_vars) @@ inventory[META].hostvars]]

\* if g not in inventory: inventory[g] = []; inventory[g].append(vm_nic)
add_to_group(inventory, g, vm_nic) ==
    IF g \in DOMAIN inventory
    THEN [inventory EXCEPT ![g] = Append(@, vm_nic)]
    ELSE (g :> <<vm_nic>>) @@ inventory

\* the loop over vm.json['variables']
RECURSIVE add_var_groups(_, _, _)
add_var_groups(inventory, variables, vm_nic) ==
    IF variables = <<>> THEN inventory
    ELSE LET var == Head(variables)
             g == vargroup(Sanitize(var[1]), Sanitize(var[2]))
         IN  add_var_groups(add_to_group(inventory, g, vm_nic), Tail(variables), vm_nic)

\* the groupings of an included VM, statement by statement: reading a name
\* that no VM has assigned yet raises NameError and leaves what was added
add_groups(inventory, n, vm_nic, v) ==
    LET i1 == set_hostvars(inventory, vm_nic, vars_from_json(v))
        i2 == add_to_group(i1, template_group(n.vm_template), vm_nic)
        i3 == add_to_group(i2, vapp_group(n.vm_vapp), vm_nic)
        i4 == add_to_group(i3, vdc_group(n.vm_vdc), vm_nic)
        i5 == add_to_group(i4, vdcvapp_group(n.vm_vdc, n.vm_vapp), vm_nic)
        i6 == IF n.hw_profile # <<>>
              THEN add_to_group(i5, hwprof_group(n.hw_profile), vm_nic)
              ELSE i5
        i7 == IF v.hasVars THEN add_var_groups(i6, v.variables, vm_nic) ELSE i6
    IN  IF n.vm_template = Unbound THEN [res |-> "raised", inventory |-> i1]
        ELSE IF n.vm_vapp = Unbound THEN [res |-> "raised", inventory |-> i2]
        ELSE IF n.vm_vdc = Unbound THEN [res |-> "raised", inventory |-> i3]
        ELSE [res |-> "next", inventory |-> i7]

\* what a VM's sub-fetches answer: all 200, or the first one that does not
Responses(cfg) ==
    {"ok", "nics", "harddisks", "volumes", "virtualmachinetemplate"}
        \cup (IF cfg.get_metadata THEN {"metadata"} ELSE {})

\* one iteration of `for vm in vms`.  res is "next" (the loop goes on),
\* "raised" (an Exception reaches the handler of generate_inv_from_api) or
\* "exit" (sys.exit(1)).  get_vm_nics, get_vm_disks, get_vm_volumes and
\* get_vm_template call the undefined global fail_with_error: NameError;
\* update_vm_metadata calls self.fail_with_error: SystemExit
loop_body(cfg, loc, inventory, v, resp) ==
    LET n == scan_links(loc, v.links)
        nic == select_nic(cfg, v.links, loc.vm_nic)
        loc2 == [vm_nic |-> nic, vm_vapp |-> n.vm_vapp, vm_vdc |-> n.vm_vdc,
                 vm_template |-> n.vm_template]
    IN  IF resp \in {"nics", "harddisks", "volumes", "virtualmachinetemplate"}
        THEN [res |-> "raised", loc |-> loc, inventory |-> inventory]
        ELSE IF resp = "metadata"
        THEN [res |-> "exit", loc |-> loc, inventory |-> inventory]
        ELSE IF nic = Unbound
        THEN [res |-> "raised", loc |-> loc2, inventory |-> inventory]
        ELSE IF nic = None \/ deployed_excluded(cfg, v)
        THEN [res |-> "next", loc |-> loc2, inventory |-> inventory]
        ELSE LET g == add_groups(inventory, n, nic, v)
             IN  [res |-> g.res, loc |-> loc2, inventory |-> g.inventory]

\* a slip: the handler returns what was accumulated
on_exception_partial(inventory) == inventory

\* except Exception: return self._empty_inventory()
on_exception(inventory) == empty_inventory


\* ---------------------------------------------------------- the cache
\* json.dumps(data) as the text of the cache file, and json.loads of it:
\* the text is kept as the document it denotes
json_dumps(data) == [json |-> data]
json_loads(text) == text.json

\* the document was never generated from the API
Never == -1

\* no file abiquo-inventory in cache_dir
NoFile ==
    [exists |-> FALSE, mtime |-> 0, parses |-> FALSE, text |-> json_dumps(EmptyDict),
     genAt |-> Never]

\* cache_available(): the option cache_dir, os.stat, the option
\* cache_max_age and the age test, in integer seconds
cache_available(cfg, file, time) ==
    /\ cfg.cache_dir
    /\ file.exists
    /\ cfg.cache_max_age # NoOpt
    /\ time - file.mtime <= cfg.cache_max_age

\* a slip: save_cache opens the file and writes nothing of the document
written_file_blank(data, time, generated) ==
    [exists |-> TRUE, mtime |-> time, parses |-> TRUE, text |-> json_dumps(EmptyDict),
     genAt |-> Never]

\* the cache file after open(.., 'w'), write(json.dumps(data)) and close()
written_file(data, time, generated) ==
    [exists |-> TRUE, mtime |-> time, parses |-> TRUE, text |-> json_dumps(data),
     genAt |-> generated]

\* the cache file after open(.., 'w') truncated it and the write or the
\* close raised IOError: no JSON text
truncated_file(time) ==
    [exists |-> TRUE, mtime |-> time, parses |-> FALSE, text |-> json_dumps(EmptyDict),
     genAt |-> Never]

\* -------------------------------------------------------------- state
VARIABLES
    cfg,         \* self.config
    refresh,     \* self.args.refresh_cache
    pc,          \* where the run is
    inventory,   \* self.inventory
    inv,         \* the local inv of __init__
    loc,         \* vm_nic, vm_vapp, vm_vdc, vm_template of generate_inv_from_api
    vm,          \* the loop variable vm
    idx,         \* VMs the loop has taken
    cache,       \* the file cache_dir/abiquo-inventory
    now,         \* int(time.time())
    stdout,      \* what sys.stdout.write received
    exitCode,    \* the exit code of a run that ended
    raised,      \* an Exception reached the handler of generate_inv_from_api
    subFail,     \* the sub-fetch of this run that answered a non-200 status
    source,      \* "api" or "cache": where this run takes the document from
    readFailed,  \* get_cache caught IOError in this run
    writeResult, \* what save_cache did in this run
    invGenAt,    \* when the document in inv was generated from the API
    gk,          \* group-name specification: the grouping kind
    ga,          \* group-name specification: the titles (or name and value)
    gname        \* group-name specification: the group name built

vars ==
    <<cfg, refresh, pc, inventory, inv, loc, vm, idx, cache, now, stdout, exitCode,
      raised, subFail, source, readFailed, writeResult, invGenAt, gk, ga, gname>>

nameVars == <<gk, ga, gname>>
fileVars == <<cache, now>>
genVars == <<inventory, loc, vm, idx, raised, subFail>>

\* a process starts: self.inventory = self._empty_inventory()
RunFresh ==
    /\ inventory = empty_inventory
    /\ inv = EmptyDict
    /\ loc = fresh_locals
    /\ vm = NoVM
    /\ idx = 0
    /\ stdout = EmptyDict
    /\ exitCode = -1
    /\ raised = FALSE
    /\ subFail = "none"
    /\ source = "none"
    /\ readFailed = FALSE
    /\ writeResult = "none"
    /\ invGenAt = Never

NoNames == gk = "none" /\ ga = <<>> /\ gname = <<>>

\* the first run against an empty cache directory
Init ==
    /\ cfg \in CacheConfigs
    /\ refresh \in BOOLEAN
    /\ cache = NoFile
    /\ now = 0
    /\ pc = "start"
    /\ RunFresh
    /\ NoNames

\* one run with --refresh-cache, which generates from the API
InitGen ==
    /\ cfg \in GenConfigs
    /\ refresh = TRUE
    /\ cache = NoFile
    /\ now = 0
    /\ pc = "start"
    /\ RunFresh
    /\ NoNames

\* ------------------------------------------------------------ actions
\* __init__: refresh_cache, cache_available()
Decide ==
    /\ pc = "start"
    /\ IF refresh \/ ~cache_available(cfg, cache, now)
       THEN pc' = "get_vms" /\ source' = "api"
       ELSE pc' = "get_cache" /\ source' = "cache"
    /\ UNCHANGED <<cfg, refresh, inv, stdout, exitCode, readFailed, writeResult,
                   invGenAt>>
    /\ UNCHANGED <<genVars, fileVars, nameVars>>

\* get_vms(): the VM list arrives, or check_response raises and
\* self.fail_with_error exits
GetVms ==
    /\ pc = "get_vms"
    /\ \E ok \in BOOLEAN :
          IF ok THEN pc' = "loop" /\ exitCode' = exitCode
                ELSE pc' = "exited" /\ exitCode' = 1
    /\ UNCHANGED <<cfg, refresh, inv, stdout, source, readFailed, writeResult,
                   invGenAt>>
    /\ UNCHANGED <<genVars, fileVars, nameVars>>

\* one iteration of the loop of generate_inv_from_api over a VM of `pool`
ProcessVM(pool) ==
    /\ pc = "loop"
    /\ idx < MaxVMs
    /\ \E v \in pool, resp \in Responses(cfg) :
          LET r == loop_body(cfg, loc, inventory, v, resp)
          IN  /\ vm' = v
              /\ idx' = idx + 1
              /\ loc' = r.loc
              /\ inventory' = r.inventory
              /\ subFail' = IF resp = "ok" THEN subFail ELSE resp
              /\ raised' = (r.res = "raised")
              /\ pc' = CASE r.res = "next" -> "loop"
                         [] r.res = "raised" -> "save"
                         [] r.res = "exit" -> "exited"
              /\ inv' = IF r.res = "raised" THEN on_exception(r.inventory) ELSE inv
              /\ invGenAt' = IF r.res = "raised" THEN now ELSE invGenAt
              /\ exitCode' = IF r.res = "exit" THEN 1 ELSE exitCode
    /\ UNCHANGED <<cfg, refresh, stdout, source, readFailed, writeResult>>
    /\ UNCHANGED <<fileVars, nameVars>>

\* the loop is over: return inventory
ReturnInventory ==
    /\ pc = "loop"
    /\ inv' = inventory
    /\ invGenAt' = now
    /\ pc' = "save"
    /\ UNCHANGED <<cfg, refresh, stdout, exitCode, source, readFailed, writeResult>>
    /\ UNCHANGED <<genVars, fileVars, nameVars>>

\* get_cache(): the parsed file; {} when open or read raises IOError; a file
\* that is no JSON text makes json.loads raise ValueError, which nothing
\* catches
GetCache ==
    /\ pc = "get_cache"
    /\ \E io \in {"ok", "ioerror"} :
          CASE io = "ioerror" ->
                 /\ inv' = EmptyDict
                 /\ invGenAt' = Never
                 /\ readFailed' = TRUE
                 /\ pc' = "save"
                 /\ exitCode' = exitCode
            [] io = "ok" /\ cache.parses ->
                 /\ inv' = json_loads(cache.text)
                 /\ invGenAt' = cache.genAt
                 /\ readFailed' = FALSE
                 /\ pc' = "save"
                 /\ exitCode' = exitCode
            [] io = "ok" /\ ~cache.parses ->
                 /\ pc' = "exited"
                 /\ exitCode' = 1
                 /\ UNCHANGED <<inv, invGenAt, readFailed>>
    /\ UNCHANGED <<cfg, refresh, stdout, source, writeResult>>
    /\ UNCHANGED <<genVars, fileVars, nameVars>>

\* save_cache(inv): config.get raises when cache_dir is not configured;
\* IOError of open leaves the file, IOError after open leaves it truncated
SaveCache ==
    /\ pc = "save"
    /\ IF ~cfg.cache_dir
       THEN /\ pc' = "exited"
            /\ exitCode' = 1
            /\ UNCHANGED <<cache, writeResult>>
       ELSE /\ pc' = "emit"
            /\ exitCode' = exitCode
            /\ \E w \in {"written", "open_failed", "write_failed"} :
                  /\ writeResult' = w
                  /\ cache' = CASE w = "written" -> written_file(inv, now, invGenAt)
                                [] w = "open_failed" -> cache
                                [] w = "write_failed" -> truncated_file(now)
    /\ UNCHANGED <<cfg, refresh, inv, stdout, source, readFailed, invGenAt, now>>
    /\ UNCHANGED <<genVars, nameVars>>

\* sys.stdout.write(json.dumps(inv, sort_keys=True, indent=2))
Emit ==
    /\ pc = "emit"
    /\ stdout' = inv
    /\ pc' = "done"
    /\ exitCode' = 0
    /\ UNCHANGED <<cfg, refresh, inv, source, readFailed, writeResult, invGenAt>>
    /\ UNCHANGED <<genVars, fileVars, nameVars>>

\* the script is run again, without --refresh-cache or with it, some
\* seconds later, against the same cache directory
NextRun ==
    /\ pc \in {"done", "exited"}
    /\ \E d \in 0..(MaxTime - now) : now' = now + d
    /\ refresh' \in BOOLEAN
    /\ pc' = "start"
    /\ inventory' = empty_inventory
    /\ inv' = EmptyDict
    /\ loc' = fresh_locals
    /\ vm' = NoVM
    /\ idx' = 0
    /\ stdout' = EmptyDict
    /\ exitCode' = -1
    /\ raised' = FALSE
    /\ subFail' = "none"
    /\ source' = "none"
    /\ readFailed' = FALSE
    /\ writeResult' = "none"
    /\ invGenAt' = Never
    /\ UNCHANGED <<cfg, cache, nameVars>>

\* runs against one cache directory
Next ==
    \/ Decide
    \/ GetVms
    \/ ProcessVM(SmallPool)
    \/ ReturnInventory
    \/ GetCache
    \/ SaveCache
    \/ Emit
    \/ NextRun

Spec == Init /\ [][Next]_vars

\* one run that generates from the API, over every VM of the pool
NextGen ==
    \/ Decide
    \/ GetVms
    \/ ProcessVM(VMPool)
    \/ ReturnInventory
    \/ SaveCache
    \/ Emit

SpecGen == InitGen /\ [][NextGen]_vars


\* ------------------------------------------------ group-name building
\* the grouping kinds of generate_inv_from_api
Kinds == {"template", "vapp", "vdc", "vdcvapp", "hwprof", "var"}

\* the pieces titles and variable names and values are made of: a plain
\* character, characters that sanitisation rewrites, and a separator
Tokens == {<<"a">>, <<"[", " ">>, <<"_", "v", "a", "p", "p", "_">>}

RECURSIVE TitlesUpTo(_)
TitlesUpTo(n) ==
    IF n = 0 THEN {<<>>}
    ELSE LET T == TitlesUpTo(n - 1) IN T \cup {t \o k : t \in T, k \in Tokens}

\* the titles, names and values the API may return
Titles == TitlesUpTo(MaxTok)

\* what each kind formats into its group name
Args(k) ==
    IF k \in {"vdcvapp", "var"} THEN Titles \X Titles ELSE {<<t>> : t \in Titles}

\* the group name of kind k for the raw titles a, sanitised as the loop does
group_key(k, a) ==
    CASE k = "template" -> template_group(Sanitize(a[1]))
      [] k = "vapp"     -> vapp_group(Sanitize(a[1]))
      [] k = "vdc"      -> vdc_group(Sanitize(a[1]))
      [] k = "vdcvapp"  -> vdcvapp_group(Sanitize(a[1]), Sanitize(a[2]))
      [] k = "hwprof"   -> hwprof_group(Sanitize(a[1]))
      [] k = "var"      -> vargroup(Sanitize(a[1]), Sanitize(a[2]))

\* every group name each kind can build
AllNames == [k \in Kinds |-> {group_key(k, a) : a \in Args(k)}]

\* a kind and its titles are drawn
InitNames ==
    /\ gk \in Kinds
    /\ ga \in Args(gk)
    /\ gname = <<>>
    /\ pc = "name"
    /\ cfg \in {c \in GenConfigs : c.public_ip_only /\ c.deployed_only}
    /\ refresh = FALSE
    /\ cache = NoFile
    /\ now = 0
    /\ RunFresh

\* the group name is formatted
BuildName ==
    /\ pc = "name"
    /\ gname' = group_key(gk, ga)
    /\ pc' = "named"
    /\ UNCHANGED <<cfg, refresh, inv, stdout, exitCode, source, readFailed,
                   writeResult, invGenAt, gk, ga>>
    /\ UNCHANGED <<genVars, fileVars>>

NextNames == BuildName

SpecNames == InitNames /\ [][NextNames]_vars

\* ------------------------------------------------------------- claims
\* the VM has a link that the identifier selection accepts
HasQualifying(c, v) == \E i \in 1..Len(v.links) : qualifies(c, v.links[i])

\* every host of every group list is a key of _meta.hostvars
HostsRecorded(d) ==
    \A g \in DOMAIN d \ {META} :
        \A i \in 1..Len(d[g]) : d[g][i] \in DOMAIN d[META].hostvars

\* the groups that received an identifier between two documents
Grown(before, after) ==
    {g \in DOMAIN after \ {META} :
        g \notin DOMAIN before \/ Len(after[g]) > Len(before[g])}

\* the sanitised titles of the VM's own links with the rel
OwnTitles(v, rel) ==
    {Sanitize(v.links[i].title) : i \in {j \in 1..Len(v.links) : v.links[j].rel = rel}}

\* the groups that the VM's own links and variables name
OwnGroups(v) ==
    LET T == OwnTitles(v, "virtualmachinetemplate")
        A == OwnTitles(v, "virtualappliance")
        D == OwnTitles(v, "virtualdatacenter")
        P == OwnTitles(v, "hardwareprofile")
    IN  {template_group(t) : t \in T} \cup {vapp_group(a) : a \in A}
          \cup {vdc_group(d) : d \in D}
          \cup {vdcvapp_group(d, a) : d \in D, a \in A}
          \cup {hwprof_group(p) : p \in P}
          \cup {vargroup(Sanitize(v.variables[i][1]), Sanitize(v.variables[i][2])) :
                  i \in 1..Len(v.variables)}

\* C1: a VM without a qualifying link (its link list may be empty) leaves
\* _meta.hostvars and every group as they were when the loop processes it
C1_SkipLaw ==
    [][(idx' = idx + 1 /\ ~HasQualifying(cfg, vm')) => inventory' = inventory]_vars

\* C2: once a sub-fetch of a VM has answered a non-2xx status, the process
\* has exited with a non-zero code: it neither returns nor emits a document
C2_SubFetchAborts ==
    subFail # "none" => (pc = "exited" /\ exitCode # 0)

\* C3: when an exception was raised in the traversal, whatever was
\* accumulated, generate_inv_from_api returns {"_meta": {"hostvars": {}}},
\* and that is what is emitted
C3_AllOrNothing ==
    raised => /\ pc \in {"save", "emit", "done"}
              /\ inv = empty_inventory
              /\ (pc = "done" => stdout = empty_inventory)

\* an exception was raised after hosts had been added to self.inventory
C3_Witness ==
    /\ raised
    /\ pc = "done"
    /\ idx >= 2
    /\ DOMAIN inventory[META].hostvars # {}
    /\ DOMAIN inventory # {META}

\* C4: after any prefix of the VMs, and in the document returned and
\* emitted, every host of every group list is a key of _meta.hostvars
C4_HostsRecorded ==
    /\ HostsRecorded(inventory)
    /\ (pc \in {"save", "emit", "done"} => HostsRecorded(inv))
    /\ (pc = "done" => HostsRecorded(stdout))

\* a document with a group of two hosts was returned
C4_Witness ==
    /\ pc = "done"
    /\ ~raised
    /\ \E g \in DOMAIN stdout \ {META} : Len(stdout[g]) >= 2

\* C5 as claimed: whenever a document is emitted, the cache file holds
\* that same document
C5_CacheHoldsEmitted ==
    pc = "done" => /\ cache.exists
                   /\ cache.parses
                   /\ json_loads(cache.text) = stdout

\* C5 as amended: save_cache has run before the document is emitted, and
\* unless its write failed the cache file holds the emitted document
C5_SavedBeforeEmit ==
    /\ pc \in {"emit", "done"} => writeResult # "none"
    /\ (pc = "done" /\ writeResult = "written") =>
          /\ cache.exists
          /\ cache.parses
          /\ json_loads(cache.text) = stdout

\* a document with hosts was served from the cache and written back
C5_Witness ==
    /\ pc = "done"
    /\ source = "cache"
    /\ writeResult = "written"
    /\ DOMAIN stdout # {}
    /\ DOMAIN stdout # {META}

\* C6: an included VM is appended to exactly the groups that its own
\* links name (and its variables), never to one named by an earlier VM
C6_OwnGroups ==
    [][(/\ idx' = idx + 1
        /\ pc' = "loop"
        /\ HasQualifying(cfg, vm')
        /\ ~deployed_excluded(cfg, vm'))
       => Grown(inventory, inventory') = OwnGroups(vm')]_vars

\* C7 as claimed: a group name built under one kind is never a group name
\* that another kind can build
C7_Disjoint ==
    pc = "named" => \A k \in Kinds \ {gk} : gname \notin AllNames[k]

\* C7 as amended: group names of two different kinds are never equal,
\* except a vdc_<d> name and a vdc_<d>_vapp_<a> name
C7_DisjointButVdc ==
    pc = "named" =>
        \A k \in Kinds \ {gk} :
            {k, gk} # {"vdc", "vdcvapp"} => gname \notin AllNames[k]

\* a variable group was built from a name that sanitisation rewrote
C7_Witness ==
    /\ pc = "named"
    /\ gk = "var"
    /\ ga = << <<"[", " ">>, <<"a">> >>
    /\ gname = <<"v", "a", "r", "_", "_", "_", "a">>

\* a document as the inventory consumer expects it
ValidDocument(d) == META \in DOMAIN d /\ HostsRecorded(d)

\* C8: a run in which reading or writing the cache file failed does not
\* abort; it emits a valid inventory document, and after a failed read the
\* document is one generated from the API in this run, as on a cache miss
C8_CacheErrorsSwallowed ==
    (readFailed \/ writeResult \in {"open_failed", "write_failed"}) =>
        /\ pc # "exited"
        /\ pc = "done" => (ValidDocument(stdout) /\ (readFailed => invGenAt = now))

\* C9: with deployed_only, the step that processes a NOT_ALLOCATED VM
\* leaves _meta.hostvars and every group as they were
C9_DeployedOnly ==
    [][(idx' = idx + 1 /\ cfg.deployed_only /\ vm'.state = "NOT_ALLOCATED")
        => inventory' = inventory]_vars

\* a NOT_ALLOCATED VM with a qualifying link and all grouping links was
\* processed after hosts had been added, and the loop went on
C9_Witness ==
    /\ pc = "loop"
    /\ idx >= 2
    /\ cfg.deployed_only
    /\ vm.state = "NOT_ALLOCATED"
    /\ HasQualifying(cfg, vm)
    /\ OwnTitles(vm, "virtualappliance") # {}
    /\ DOMAIN inventory # {META}

\* C10: a document served from the cache was generated from the API at
\* most cache_max_age seconds before the run
C10_BoundedStaleness ==
    (pc = "done" /\ source = "cache" /\ invGenAt # Never) =>
        now - invGenAt <= cfg.cache_max_age

====
